---------------------------- MODULE Spec2Model ----------------------------
(***************************************************************************)
(* The real-time transcription pipeline of scribe-ai                       *)
(* (src/app/transcription/routes.py and utils.py): the session records in  *)
(* the transcription_sessions collection, the start and end requests, the  *)
(* WebSocket connection handler with its read loop, the chunk tasks, the   *)
(* process-wide worker pool, the per-connection response buffer, and the   *)
(* completion callback.                                                    *)
(*                                                                         *)
(* Granularity.  The code is asyncio code: what runs between two awaits is *)
(* atomic, and every await of a collaborator (a database operation, the    *)
(* blob store, the transcription call, a WebSocket send) is a point where  *)
(* other coroutines run.  An action of this module is one resumption of a  *)
(* coroutine: the synchronous code it runs up to its next await, and the   *)
(* collaborator operation it issues there, which takes effect at once (the *)
(* coroutine sees its result at its next resumption, other coroutines may  *)
(* run in between).                                                        *)
(***************************************************************************)
EXTENDS Integers, Sequences, FiniteSets, TLC

(***************************************************************************)
(* Bounds of the model.                                                    *)
(***************************************************************************)
\* transcription-session records the store can hold
MaxSessions == 3
\* concurrent start requests
MaxStarts == 3
\* binary frames received on one connection in the lifecycle specification
MaxSeq == 2
\* binary frames received on the first connection in the pool specification
PoolSeqA == 4
\* binary frames received on the second connection in the pool specification
PoolSeqB == 1
\* binary frames received on one connection in the framing specification
FrameSeq == 3
\* binary frames received on the connection in the sequencing specification
SeqFrames == 3
\* binary frames received on each connection in the attachment specification
AttachSeq == 1
\* binary frames received on the connection in the transcript specification
TextSeq == 3
\* words of a transcript and of a text in the append specification
AppendLen == 2
\* binary frames received on the connection in the fault specification
FaultSeq == 2

(***************************************************************************)
(* Program constants.                                                      *)
(***************************************************************************)
\* TRANSCRIPTION_WORKER_POOL = asyncio.Semaphore(5)
PoolCapacity == 5
\* MAX_CHUNK_SIZE_BYTES
MaxChunkSizeBytes == 1048576

\* TranscriptionStatus
Statuses == {"starting", "streaming", "ending", "completed", "failed"}
\* a faulty filter, which misses the streaming sessions: the idempotence of
\* the start request must not hold of it
OnlyStarting == {"starting"}

\* the statuses start_transcription_session treats as active
ActiveStatuses == {"starting", "streaming"}
\* the statuses end_transcription_session and the read loop treat as ended
EndedStatuses == {"ending", "completed", "failed"}

TIds == 1..MaxSessions
Reqs == 1..MaxStarts
\* parent (patient) sessions: 1 and 2 are active, 3 is closed
Parents == {1, 2, 3}
Conns == {1, 2}
Max2(a, b) == IF a >= b THEN a ELSE b
\* the sequence numbers a connection can reach in any specification
Seqs == 0..(Max2(Max2(Max2(MaxSeq, FrameSeq), Max2(SeqFrames, AttachSeq)),
                 Max2(Max2(PoolSeqA, PoolSeqB), Max2(TextSeq, FaultSeq))) - 1)
\* byte sizes of the frames of the model: 100 and 101 are under the ceiling
Sizes == {100, 101, 2000000}

VARIABLES
    db,                \* transcription_sessions: TIds -> document (NoDoc: none)
    startReq,          \* start requests: Reqs -> [pc, parent, result]
    endReq,            \* end requests: TIds -> pc of the end request on it
    conn,              \* connections: Conns -> the handler's locals
    pending_metadata,  \* Conns -> [Seqs -> advertised size, -1: no entry]
    response_buffer,   \* Conns -> [Seqs -> buffered result, "none": no entry]
    active_tasks,      \* Conns -> set of sequence numbers with a task entry
    task,              \* Conns -> [Seqs -> the chunk task's position]
    permits,           \* value of TRANSCRIPTION_WORKER_POOL
    checks,            \* Conns -> the check_and_complete_session tasks
    sent,              \* Conns -> results the Sequencer sent, in order
    reply              \* Conns -> the last message the read loop sent

vars == <<db, startReq, endReq, conn, pending_metadata, response_buffer,
          active_tasks, task, checks, permits, sent, reply>>

connVars == <<conn, pending_metadata, response_buffer, active_tasks, task,
              checks, permits, sent, reply>>

(***************************************************************************)
(* The session store.                                                      *)
(***************************************************************************)
NoDoc == [parent |-> 0, status |-> "absent", connected |-> FALSE,
          transcript |-> <<>>]

\* TranscriptionSession(session_id=p, status=starting): the defaults of the
\* schema for the presence flag and the transcript
NewSession(p) == [parent |-> p, status |-> "starting", connected |-> FALSE,
                  transcript |-> <<>>]

Exists(d, t) == d[t].parent # 0

\* the sessions collection: the status of a patient session
PatientStatus(p) == IF p \in {1, 2} THEN "active" ELSE "closed"

\* find_one({"session_id": p, "status": {"$in": ["starting", "streaming"]}}):
\* the matching documents; find_one returns the first in insertion order
ActiveOfParent(d, p) ==
    {t \in TIds : d[t].parent = p /\ d[t].status \in ActiveStatuses}

Min(S) == CHOOSE x \in S : \A y \in S : x <= y

FindActiveByParent(d, p) ==
    IF ActiveOfParent(d, p) = {} THEN 0 ELSE Min(ActiveOfParent(d, p))

\* a fresh transcription_session_id (uuid4): the first unused identifier
FreshIds(d) == {t \in TIds : ~Exists(d, t)}

(***************************************************************************)
(* POST /start: start_transcription_session.  The lookup of the patient    *)
(* session and of an active transcription session (two reads), then, if    *)
(* none was found, the insert: another request can run between them.       *)
(***************************************************************************)
IdleReq == [pc |-> "idle", parent |-> 0, result |-> 0]

StartFind(r, p) ==
    /\ startReq[r].pc = "idle"
    /\ startReq' = [startReq EXCEPT ![r] =
         IF PatientStatus(p) # "active"
         THEN [pc |-> "rejected", parent |-> p, result |-> 0]
         ELSE IF FindActiveByParent(db, p) # 0
         THEN [pc |-> "returned", parent |-> p,
               result |-> FindActiveByParent(db, p)]
         ELSE [pc |-> "checked", parent |-> p, result |-> 0]]
    /\ UNCHANGED <<db, endReq, connVars>>

StartInsert(r) ==
    /\ startReq[r].pc = "checked"
    /\ FreshIds(db) # {}
    /\ LET t == Min(FreshIds(db)) IN
         /\ db' = [db EXCEPT ![t] = NewSession(startReq[r].parent)]
         /\ startReq' = [startReq EXCEPT ![r].pc = "created", ![r].result = t]
    /\ UNCHANGED <<endReq, connVars>>

(***************************************************************************)
(* POST /end: end_transcription_session.  The read of the status, then the *)
(* update that sets it to ending.                                          *)
(***************************************************************************)
\* a faulty lookup, which takes every existing session for one that can
\* be ended: the rejection of a repeated end request must not hold of it
EndFindLenient(t) ==
    /\ endReq[t] = "idle"
    /\ endReq' = [endReq EXCEPT ![t] =
         IF ~Exists(db, t) THEN "not_found" ELSE "found"]
    /\ UNCHANGED <<db, startReq, connVars>>

EndFind(t) ==
    /\ endReq[t] = "idle"
    /\ endReq' = [endReq EXCEPT ![t] =
         IF ~Exists(db, t) THEN "not_found"
         ELSE IF db[t].status \in EndedStatuses THEN "already_ended"
         ELSE "found"]
    /\ UNCHANGED <<db, startReq, connVars>>

EndUpdate(t) ==
    /\ endReq[t] = "found"
    /\ db' = [db EXCEPT ![t].status = "ending"]
    /\ endReq' = [endReq EXCEPT ![t] = "ended"]
    /\ UNCHANGED <<startReq, connVars>>

\* the request was answered (200, or 400 for a ValueError); the client may
\* make another end request for the session
EndAgain(t) ==
    /\ endReq[t] \in {"already_ended", "ended", "not_found"}
    /\ endReq' = [endReq EXCEPT ![t] = "idle"]
    /\ UNCHANGED <<db, startReq, connVars>>


(***************************************************************************)
(* The connection handler: transcription_websocket.                        *)
(***************************************************************************)
\* ws: the state of the WebSocket (connecting until it is accepted)
IdleConn == [pc |-> "idle", tsid |-> 0, expected_sequence |-> 0,
             next_sequence_to_send |-> 0, status |-> "absent", frame |-> 0,
             lock |-> -1, ws |-> "connecting"]

NoTask == [pc |-> "none", cancel |-> FALSE, resp |-> "none", text |-> <<>>,
           cur |-> <<>>]

NoReply == [type |-> "none", code |-> "none", seq |-> -1]

ErrorReply(code, k) == [type |-> "error", code |-> code, seq |-> k]

StatusOf(d, t) == IF Exists(d, t) THEN d[t].status ELSE "absent"

\* validate_websocket_connection: the session exists, its status is
\* starting or streaming, and no WebSocket is marked connected
ValidConnection(d, t) ==
    /\ Exists(d, t)
    /\ d[t].status \in {"starting", "streaming"}
    /\ ~d[t].connected

\* is_websocket_open: the client state and the application state are both
\* CONNECTED, which they are from websocket.accept() to the disconnect
IsWebsocketOpen(c) == conn[c].ws = "connected"

CloseReply(code) == [type |-> "close", code |-> code, seq |-> -1]

\* step 1 of the handler: the validation read; on a ValueError the handler
\* closes the socket with code 4000 if is_websocket_open, and goes to its
\* finally block
Validate(c, t) ==
    /\ conn[c].pc = "idle"
    /\ conn' = [conn EXCEPT ![c].tsid = t,
                            ![c].pc = IF ValidConnection(db, t)
                                      THEN "validated" ELSE "rejected"]
    /\ reply' = [reply EXCEPT ![c] =
                   IF ValidConnection(db, t) \/ ~IsWebsocketOpen(c)
                   THEN reply[c]
                   ELSE CloseReply("4000")]
    /\ UNCHANGED <<db, startReq, endReq, pending_metadata, response_buffer,
                   active_tasks, task, permits, sent, checks>>

\* steps 2-5: accept, mark_websocket_connected (one update that sets the
\* presence flag and the status streaming), the confirmation, the locals
MarkConnected(c) ==
    /\ conn[c].pc = "validated"
    /\ db' = [db EXCEPT ![conn[c].tsid].connected = TRUE,
                        ![conn[c].tsid].status = "streaming"]
    /\ conn' = [conn EXCEPT ![c].pc = "open", ![c].ws = "connected"]
    /\ reply' = [reply EXCEPT ![c] =
                   [type |-> "connection_confirmed", code |-> "none",
                    seq |-> -1]]
    /\ UNCHANGED <<startReq, endReq, pending_metadata, response_buffer,
                   active_tasks, task, permits, sent, checks>>

\* the validation read raises an unexpected error (not a ValueError): it is
\* logged, and the handler closes the socket with code 1011 if
\* is_websocket_open, and goes to its finally block
ValidateFail(c, t) ==
    /\ conn[c].pc = "idle"
    /\ conn' = [conn EXCEPT ![c].tsid = t, ![c].pc = "cleanup"]
    /\ reply' = [reply EXCEPT ![c] =
                   IF IsWebsocketOpen(c) THEN CloseReply("1011") ELSE reply[c]]
    /\ UNCHANGED <<db, startReq, endReq, pending_metadata, response_buffer,
                   active_tasks, task, permits, sent, checks>>

\* the socket is accepted and the update of mark_websocket_connected
\* raises: the socket is open and is closed with code 1011
MarkConnectedFail(c) ==
    /\ conn[c].pc = "validated"
    /\ conn' = [conn EXCEPT ![c].pc = "cleanup", ![c].ws = "disconnected"]
    /\ reply' = [reply EXCEPT ![c] = CloseReply("1011")]
    /\ UNCHANGED <<db, startReq, endReq, pending_metadata, response_buffer,
                   active_tasks, task, permits, sent, checks>>

\* a text frame {"type": "audio_chunk_metadata", sequence_number: k,
\* chunk_size_bytes: n}: stored in pending_metadata, then answered by
\* process_websocket_message from the status it reads
MetadataReply(c, k, n) ==
    IF StatusOf(db, conn[c].tsid) = "absent"
    THEN ErrorReply("SESSION_NOT_FOUND", -1)
    ELSE IF StatusOf(db, conn[c].tsid) # "streaming"
    THEN ErrorReply("SESSION_NOT_STREAMING", -1)
    ELSE [type |-> "metadata_received", code |-> "none", seq |-> k]

MetadataFrame(c, k, n) ==
    /\ conn[c].pc = "open"
    /\ pending_metadata' = [pending_metadata EXCEPT ![c][k] = n]
    /\ reply' = [reply EXCEPT ![c] = MetadataReply(c, k, n)]
    /\ UNCHANGED <<db, startReq, endReq, conn, response_buffer, active_tasks,
                   task, permits, sent, checks>>

\* the read of the status in process_websocket_message raises: the function
\* catches it and returns the PROCESSING_ERROR message, which has no
\* sequence_number
MetadataFrameFail(c, k, n) ==
    /\ conn[c].pc = "open"
    /\ pending_metadata' = [pending_metadata EXCEPT ![c][k] = n]
    /\ reply' = [reply EXCEPT ![c] = ErrorReply("PROCESSING_ERROR", -1)]
    /\ UNCHANGED <<db, startReq, endReq, conn, response_buffer, active_tasks,
                   task, permits, sent, checks>>

\* a binary frame of n bytes: the read of the session's status
BinaryRead(c, n, lim) ==
    /\ conn[c].pc = "open"
    /\ conn[c].expected_sequence < lim
    /\ conn' = [conn EXCEPT ![c].pc = "binary", ![c].frame = n,
                            ![c].status = StatusOf(db, conn[c].tsid)]
    /\ UNCHANGED <<db, startReq, endReq, pending_metadata, response_buffer,
                   active_tasks, task, permits, sent, reply, checks>>

\* the read of the status for a binary frame raises: the except branch of
\* the loop logs the error (log_error is awaited) and then breaks
BinaryReadFail(c) ==
    /\ conn[c].pc = "open"
    /\ conn' = [conn EXCEPT ![c].pc = "loop_error"]
    /\ UNCHANGED <<db, startReq, endReq, pending_metadata, response_buffer,
                   active_tasks, task, permits, sent, reply, checks>>

\* a faulty rejection, which answers the frame and does not consume its
\* sequence number: the numbering of the frames must not hold of it
RejectFrameNoAdvance(c, code, dropMeta) ==
    /\ reply' = [reply EXCEPT ![c] =
                   ErrorReply(code, conn[c].expected_sequence)]
    /\ conn' = [conn EXCEPT ![c].pc = "open"]
    /\ pending_metadata' =
         IF dropMeta
         THEN [pending_metadata EXCEPT ![c][conn[c].expected_sequence] = -1]
         ELSE pending_metadata
    /\ UNCHANGED <<db, startReq, endReq, response_buffer, active_tasks, task,
                   permits, sent, checks>>

\* the frame is answered with an error and its sequence number consumed;
\* dropMeta: the branch deletes the pending_metadata entry
RejectFrame(c, code, dropMeta) ==
    /\ reply' = [reply EXCEPT ![c] =
                   ErrorReply(code, conn[c].expected_sequence)]
    /\ conn' = [conn EXCEPT ![c].pc = "open",
                  ![c].expected_sequence = conn[c].expected_sequence + 1]
    /\ pending_metadata' =
         IF dropMeta
         THEN [pending_metadata EXCEPT ![c][conn[c].expected_sequence] = -1]
         ELSE pending_metadata
    /\ UNCHANGED <<db, startReq, endReq, response_buffer, active_tasks, task,
                   permits, sent, checks>>

\* a faulty lookup, which takes every frame to have metadata: the pairing
\* of frames and metadata must not hold of it
HasMetadataAlways(c) == TRUE

\* a faulty lookup, which takes the length of the frame for the advertised
\* size: the size enforcement must not hold of it
AdvertisedAsReceived(c) == conn[c].frame

\* if expected_sequence not in pending_metadata
HasMetadata(c) == pending_metadata[c][conn[c].expected_sequence] # -1
\* metadata.get("chunk_size_bytes", 0)
AdvertisedSize(c) == pending_metadata[c][conn[c].expected_sequence]

BinaryNotFound(c) ==
    /\ conn[c].pc = "binary"
    /\ conn[c].status = "absent"
    /\ RejectFrame(c, "SESSION_NOT_FOUND", FALSE)

BinarySessionEnding(c) ==
    /\ conn[c].pc = "binary"
    /\ conn[c].status \in EndedStatuses
    /\ RejectFrame(c, "SESSION_ENDING", FALSE)

\* the session-status checks passed
SessionAccepts(c) ==
    /\ conn[c].pc = "binary"
    /\ conn[c].status # "absent"
    /\ conn[c].status \notin EndedStatuses

BinaryMissingMetadata(c) ==
    /\ SessionAccepts(c)
    /\ ~HasMetadata(c)
    /\ RejectFrame(c, "MISSING_METADATA", FALSE)

BinarySizeMismatch(c) ==
    /\ SessionAccepts(c)
    /\ HasMetadata(c)
    /\ conn[c].frame # AdvertisedSize(c)
    /\ RejectFrame(c, "SIZE_MISMATCH", TRUE)

BinaryTooLarge(c) ==
    /\ SessionAccepts(c)
    /\ HasMetadata(c)
    /\ conn[c].frame = AdvertisedSize(c)
    /\ conn[c].frame > MaxChunkSizeBytes
    /\ RejectFrame(c, "CHUNK_TOO_LARGE", TRUE)

\* a faulty admission, which takes the permit in the read loop before it
\* creates the task: the independence of the read loop from the pool must
\* not hold of it
BinaryAdmitInline(c) ==
    /\ SessionAccepts(c)
    /\ HasMetadata(c)
    /\ conn[c].frame = AdvertisedSize(c)
    /\ conn[c].frame <= MaxChunkSizeBytes
    /\ permits > 0
    /\ LET k == conn[c].expected_sequence IN
         /\ pending_metadata' = [pending_metadata EXCEPT ![c][k] = -1]
         /\ task' = [task EXCEPT ![c][k] = [NoTask EXCEPT !.pc = "storing"]]
         /\ active_tasks' = [active_tasks EXCEPT ![c] = @ \cup {k}]
         /\ conn' = [conn EXCEPT ![c].pc = "open",
                                 ![c].expected_sequence = k + 1]
    /\ permits' = permits - 1
    /\ UNCHANGED <<db, startReq, endReq, response_buffer, sent, reply, checks>>

\* all checks passed: the metadata entry is removed, the task is created
\* with its cleanup callback and stored in active_tasks
BinaryAdmit(c) ==
    /\ SessionAccepts(c)
    /\ HasMetadata(c)
    /\ conn[c].frame = AdvertisedSize(c)
    /\ conn[c].frame <= MaxChunkSizeBytes
    /\ LET k == conn[c].expected_sequence IN
         /\ pending_metadata' = [pending_metadata EXCEPT ![c][k] = -1]
         /\ task' = [task EXCEPT ![c][k] = [NoTask EXCEPT !.pc = "created"]]
         /\ active_tasks' = [active_tasks EXCEPT ![c] = @ \cup {k}]
         /\ conn' = [conn EXCEPT ![c].pc = "open",
                                 ![c].expected_sequence = k + 1]
    /\ UNCHANGED <<db, startReq, endReq, response_buffer, permits, sent,
                   reply, checks>>


(***************************************************************************)
(* The chunk task: process_audio_chunk_with_semaphore, which runs          *)
(* process_audio_chunk_background, which runs process_audio_chunk_complete.*)
(* Positions of a task: created (not started, or waiting for the outer     *)
(* permit), storing, wait_inner (waiting for the permit that               *)
(* transcribe_audio_chunk acquires), transcribing, upd_write (the          *)
(* transcript was read, the update is pending), wait_lock, draining (in    *)
(* send_buffered_responses, a send pending), done (the task finished, its  *)
(* done-callback pending), finished.  The check_and_complete_session tasks *)
(* the callbacks spawn are anonymous: checks counts, per connection, those *)
(* that have not read the status yet and those that read ending.           *)
(***************************************************************************)
RunningPcs == {"created", "storing", "wait_inner", "transcribing",
               "upd_write", "wait_lock", "draining"}

\* not task.done()
Running(c, k) == task[c][k].pc \in RunningPcs

\* a faulty delivery of the cancellation, which lets a cancelled task go on:
\* the silence of cancelled tasks must not hold of it
StepsIgnoringCancel(c, k, pc) == task[c][k].pc = pc

\* a step of the task's coroutine: none once cancellation was requested
Steps(c, k, pc) == task[c][k].pc = pc /\ ~task[c][k].cancel

\* a faulty pool, which never makes a task wait: the bound on the calls in
\* flight must not hold of it
PermitAlways == TRUE

\* async with TRANSCRIPTION_WORKER_POOL: a permit can be taken
PermitFree == permits > 0

\* the permits a task holds at each position
Held(pc) == CASE pc = "created" -> 0
              [] pc = "transcribing" -> 2
              [] OTHER -> 1

\* the message json.dumps(response) of a buffered result for sequence k;
\* the storage error of process_audio_chunk carries no sequence_number
MessageOf(resp, k) ==
    CASE resp = "transcript_update" ->
           [type |-> "transcript_update", code |-> "none", seq |-> k]
      [] resp = "AUDIO_STORAGE_ERROR" ->
           [type |-> "error", code |-> "AUDIO_STORAGE_ERROR", seq |-> -1]
      [] OTHER -> [type |-> "error", code |-> resp, seq |-> k]

\* a faulty join, which puts the new text in front of the transcript: the
\* completion order of the transcript must not hold of it
PrependText(cur, x) == IF cur # <<>> /\ x # <<>> THEN x \o cur ELSE x

\* update_session_transcript: the text is joined to a non-empty transcript
\* with one space (here: the word sequences are concatenated)
AppendText(cur, x) == IF cur # <<>> /\ x # <<>> THEN cur \o x ELSE x

\* the outer permit: process_audio_chunk_with_semaphore; the task then runs
\* up to the upload of process_audio_chunk
AcquireOuter(c, k) ==
    /\ Steps(c, k, "created")
    /\ PermitFree
    /\ permits' = permits - 1
    /\ task' = [task EXCEPT ![c][k].pc = "storing"]
    /\ UNCHANGED <<db, startReq, endReq, conn, pending_metadata,
                   response_buffer, active_tasks, sent, reply, checks>>

\* the chunk is stored; transcribe_audio_chunk asks for a second permit of
\* the same pool and starts the transcription call if it gets one at once
StoreOk(c, k) ==
    /\ Steps(c, k, "storing")
    /\ permits' = IF PermitFree THEN permits - 1 ELSE permits
    /\ task' = [task EXCEPT ![c][k].pc =
                  IF PermitFree THEN "transcribing" ELSE "wait_inner"]
    /\ UNCHANGED <<db, startReq, endReq, conn, pending_metadata,
                   response_buffer, active_tasks, sent, reply, checks>>

\* process_audio_chunk failed: its error response is the task's result
StoreFail(c, k) ==
    /\ Steps(c, k, "storing")
    /\ task' = [task EXCEPT ![c][k].pc = "wait_lock",
                            ![c][k].resp = "AUDIO_STORAGE_ERROR"]
    /\ UNCHANGED <<db, startReq, endReq, conn, pending_metadata,
                   response_buffer, active_tasks, permits, sent, reply,
                   checks>>

AcquireInner(c, k) ==
    /\ Steps(c, k, "wait_inner")
    /\ PermitFree
    /\ permits' = permits - 1
    /\ task' = [task EXCEPT ![c][k].pc = "transcribing"]
    /\ UNCHANGED <<db, startReq, endReq, conn, pending_metadata,
                   response_buffer, active_tasks, sent, reply, checks>>

\* the transcription call returns text x: the inner permit is released and
\* update_session_transcript reads the current transcript
TranscribeOk(c, k, x) ==
    /\ Steps(c, k, "transcribing")
    /\ permits' = permits + 1
    /\ task' = [task EXCEPT ![c][k].pc = "upd_write", ![c][k].text = x,
                  ![c][k].cur = db[conn[c].tsid].transcript]
    /\ UNCHANGED <<db, startReq, endReq, conn, pending_metadata,
                   response_buffer, active_tasks, sent, reply, checks>>

\* the transcription call raises: caught by process_audio_chunk_complete
TranscribeFail(c, k) ==
    /\ Steps(c, k, "transcribing")
    /\ permits' = permits + 1
    /\ task' = [task EXCEPT ![c][k].pc = "wait_lock",
                            ![c][k].resp = "PROCESSING_PIPELINE_ERROR"]
    /\ UNCHANGED <<db, startReq, endReq, conn, pending_metadata,
                   response_buffer, active_tasks, sent, reply, checks>>

(***************************************************************************)
(* The Sequencer: the critical section of process_audio_chunk_background   *)
(* and send_buffered_responses.                                            *)
(***************************************************************************)
InBuffer(buf, k) == k \in DOMAIN buf /\ buf[k] # "none"

EmptyBuffer == [k \in Seqs |-> "none"]

\* inside async with buffer_lock: the result of the task for sequence k is
\* inserted; the drain starts a send if the entry at the cursor is present,
\* else the lock is released, the task ends and releases the outer permit
InsertAndDrain(c, k, resp) ==
    LET buf == [response_buffer[c] EXCEPT ![k] = resp]
        go == InBuffer(buf, conn[c].next_sequence_to_send) IN
      /\ response_buffer' = [response_buffer EXCEPT ![c] = buf]
      /\ conn' = [conn EXCEPT ![c].lock = IF go THEN k ELSE -1]
      /\ task' = [task EXCEPT ![c][k] =
                    [NoTask EXCEPT !.pc = IF go THEN "draining" ELSE "done"]]
      /\ permits' = IF go THEN permits ELSE permits + 1

\* a faulty entry, which does not wait for the lock: the mutual exclusion
\* of insert-then-drain must not hold of it
TaskInsertNoLock(c, k) ==
    /\ Steps(c, k, "wait_lock")
    /\ InsertAndDrain(c, k, task[c][k].resp)
    /\ UNCHANGED <<db, startReq, endReq, pending_metadata, active_tasks,
                   checks, sent, reply>>

\* a task that had to wait (for the lock, or in the log_error calls of an
\* error path) enters the critical section
TaskInsert(c, k) ==
    /\ Steps(c, k, "wait_lock")
    /\ conn[c].lock = -1
    /\ InsertAndDrain(c, k, task[c][k].resp)
    /\ UNCHANGED <<db, startReq, endReq, pending_metadata, active_tasks,
                   checks, sent, reply>>

\* update_session_transcript: the update of the transcript returns.  With
\* modified_count == 0 (the stored transcript already equals the new one) it
\* raises, which becomes a pipeline error; else the transcript_update is the
\* task's result and the task enters the critical section if the lock is free
UpdFails(c, k) ==
    db[conn[c].tsid].transcript = AppendText(task[c][k].cur, task[c][k].text)

UpdWrite(c, k) ==
    /\ Steps(c, k, "upd_write")
    /\ db' = [db EXCEPT ![conn[c].tsid].transcript =
                AppendText(task[c][k].cur, task[c][k].text)]
    /\ IF UpdFails(c, k) \/ conn[c].lock # -1
       THEN /\ task' = [task EXCEPT ![c][k] =
                          [NoTask EXCEPT !.pc = "wait_lock",
                             !.resp = IF UpdFails(c, k)
                                      THEN "PROCESSING_PIPELINE_ERROR"
                                      ELSE "transcript_update"]]
            /\ UNCHANGED <<conn, response_buffer, permits>>
       ELSE InsertAndDrain(c, k, "transcript_update")
    /\ UNCHANGED <<startReq, endReq, pending_metadata, active_tasks, checks,
                   sent, reply>>

\* a faulty drain, which sends any buffered entry instead of the entry at
\* the cursor: the ordering properties must not hold of it
DrainSendUnordered(c, k) ==
    /\ Steps(c, k, "draining")
    /\ \E n \in Seqs :
         /\ InBuffer(response_buffer[c], n)
         /\ sent' = [sent EXCEPT ![c] =
                       Append(@, [key |-> n,
                                  msg |-> MessageOf(response_buffer[c][n], n)])]
         /\ response_buffer' = [response_buffer EXCEPT ![c][n] = "none"]
    /\ conn' = [conn EXCEPT ![c].next_sequence_to_send = @ + 1,
                            ![c].lock = -1]
    /\ task' = [task EXCEPT ![c][k].pc = "done"]
    /\ permits' = permits + 1
    /\ UNCHANGED <<db, startReq, endReq, pending_metadata, active_tasks,
                   reply, checks>>

\* a faulty drain, which moves the cursor and leaves the entry it sent in
\* the buffer: the invariant of buffer and cursor must not hold of it
DrainSendKeeps(c, k) ==
    /\ Steps(c, k, "draining")
    /\ LET n == conn[c].next_sequence_to_send
           go == InBuffer(response_buffer[c], n + 1) IN
         /\ sent' = [sent EXCEPT ![c] =
                       Append(@, [key |-> n,
                                  msg |-> MessageOf(response_buffer[c][n], n)])]
         /\ conn' = [conn EXCEPT ![c].next_sequence_to_send = n + 1,
                                 ![c].lock = IF go THEN k ELSE -1]
         /\ task' = [task EXCEPT ![c][k].pc =
                       IF go THEN "draining" ELSE "done"]
         /\ permits' = IF go THEN permits ELSE permits + 1
    /\ UNCHANGED <<db, startReq, endReq, pending_metadata, active_tasks,
                   response_buffer, reply, checks>>

\* websocket.send_text returned: the entry is deleted and the cursor moved;
\* the loop sends the next entry or ends
DrainSend(c, k) ==
    /\ Steps(c, k, "draining")
    /\ LET n == conn[c].next_sequence_to_send
           buf == [response_buffer[c] EXCEPT ![n] = "none"]
           go == InBuffer(buf, n + 1) IN
         /\ sent' = [sent EXCEPT ![c] =
                       Append(@, [key |-> n,
                                  msg |-> MessageOf(response_buffer[c][n], n)])]
         /\ response_buffer' = [response_buffer EXCEPT ![c] = buf]
         /\ conn' = [conn EXCEPT ![c].next_sequence_to_send = n + 1,
                                 ![c].lock = IF go THEN k ELSE -1]
         /\ task' = [task EXCEPT ![c][k].pc =
                       IF go THEN "draining" ELSE "done"]
         /\ permits' = IF go THEN permits ELSE permits + 1
    /\ UNCHANGED <<db, startReq, endReq, pending_metadata, active_tasks,
                   reply, checks>>

\* a faulty handling of a failed send, which leaves the loop with the
\* buffer as it is: the clearing of the buffer must not hold of it
DrainSendFailKeeps(c, k) ==
    /\ Steps(c, k, "draining")
    /\ conn' = [conn EXCEPT ![c].lock = -1]
    /\ task' = [task EXCEPT ![c][k].pc = "done"]
    /\ permits' = permits + 1
    /\ UNCHANGED <<db, startReq, endReq, pending_metadata, active_tasks,
                   response_buffer, sent, reply, checks>>

\* websocket.send_text raised: the buffer is cleared and the loop left
DrainSendFail(c, k) ==
    /\ Steps(c, k, "draining")
    /\ response_buffer' = [response_buffer EXCEPT ![c] = EmptyBuffer]
    /\ conn' = [conn EXCEPT ![c].lock = -1]
    /\ task' = [task EXCEPT ![c][k].pc = "done"]
    /\ permits' = permits + 1
    /\ UNCHANGED <<db, startReq, endReq, pending_metadata, active_tasks,
                   sent, reply, checks>>

(***************************************************************************)
(* The done-callback of create_task_cleanup_callback and the               *)
(* check_and_complete_session task it spawns.                              *)
(***************************************************************************)
Callback(c, k) ==
    /\ task[c][k].pc = "done"
    /\ active_tasks' = [active_tasks EXCEPT ![c] = @ \ {k}]
    /\ task' = [task EXCEPT ![c][k].pc = "finished"]
    /\ checks' = [checks EXCEPT ![c].spawned = @ + 1]
    /\ UNCHANGED <<db, startReq, endReq, conn, pending_metadata,
                   response_buffer, permits, sent, reply>>

\* a check task starts and reads the status: only an ending session is
\* looked at further
CheckRead(c) ==
    /\ checks[c].spawned > 0
    /\ checks' = [checks EXCEPT ![c].spawned = @ - 1,
                    ![c].ending = IF StatusOf(db, conn[c].tsid) = "ending"
                                  THEN @ + 1 ELSE @]
    /\ UNCHANGED <<db, startReq, endReq, conn, pending_metadata,
                   response_buffer, active_tasks, task, permits, sent, reply>>

\* running_tasks = [task for task in active_tasks.values() if not task.done()]
RunningTasks(c) == {j \in active_tasks[c] : Running(c, j)}

\* a check task that read ending resumes: with no running task it updates
\* the status to completed
CheckDecide(c) ==
    /\ checks[c].ending > 0
    /\ checks' = [checks EXCEPT ![c].ending = @ - 1]
    /\ db' = IF RunningTasks(c) = {}
             THEN [db EXCEPT ![conn[c].tsid].status = "completed"]
             ELSE db
    /\ UNCHANGED <<startReq, endReq, conn, pending_metadata, response_buffer,
                   active_tasks, task, permits, sent, reply>>

(***************************************************************************)
(* The end of the read loop and the finally block of the handler.          *)
(***************************************************************************)
\* the client disconnects: the loop is left and every task of active_tasks
\* that is not done is cancelled
Disconnect(c) ==
    /\ conn[c].pc = "open"
    /\ conn' = [conn EXCEPT ![c].pc = "cleanup", ![c].ws = "disconnected"]
    /\ task' = [task EXCEPT ![c] =
                  [k \in Seqs |->
                     IF k \in active_tasks[c] /\ Running(c, k)
                     THEN [task[c][k] EXCEPT !.cancel = TRUE]
                     ELSE task[c][k]]]
    /\ UNCHANGED <<db, startReq, endReq, pending_metadata, response_buffer,
                   active_tasks, permits, sent, reply, checks>>

\* a faulty exit, which leaves the loop after an error without cancelling
\* the tasks: the cleanup on every exit must not hold of it
LoopErrorBreakNoCancel(c) ==
    /\ conn[c].pc = "loop_error"
    /\ conn' = [conn EXCEPT ![c].pc = "cleanup"]
    /\ UNCHANGED <<db, startReq, endReq, pending_metadata, response_buffer,
                   active_tasks, task, permits, sent, reply, checks>>

\* the error of the loop was logged: break, and the finally block cancels
\* every task of active_tasks that is not done
LoopErrorBreak(c) ==
    /\ conn[c].pc = "loop_error"
    /\ conn' = [conn EXCEPT ![c].pc = "cleanup"]
    /\ task' = [task EXCEPT ![c] =
                  [k \in Seqs |->
                     IF k \in active_tasks[c] /\ Running(c, k)
                     THEN [task[c][k] EXCEPT !.cancel = TRUE]
                     ELSE task[c][k]]]
    /\ UNCHANGED <<db, startReq, endReq, pending_metadata, response_buffer,
                   active_tasks, permits, sent, reply, checks>>

\* a faulty cancellation, which ends the task without releasing what it
\* holds: the return of the permits must not hold of it
TaskCancelledKeeps(c, k) ==
    /\ Running(c, k)
    /\ task[c][k].cancel
    /\ task' = [task EXCEPT ![c][k].pc = "done"]
    /\ UNCHANGED <<db, startReq, endReq, conn, pending_metadata,
                   response_buffer, active_tasks, permits, sent, reply,
                   checks>>

\* CancelledError is raised in the task at the await it is suspended on: no
\* handler of the pipeline catches it, the async with blocks release the
\* lock and the permits, and the task is done
TaskCancelled(c, k) ==
    /\ Running(c, k)
    /\ task[c][k].cancel
    /\ permits' = permits + Held(task[c][k].pc)
    /\ conn' = [conn EXCEPT ![c].lock = IF conn[c].lock = k THEN -1 ELSE @]
    /\ task' = [task EXCEPT ![c][k].pc = "done"]
    /\ UNCHANGED <<db, startReq, endReq, pending_metadata, response_buffer,
                   active_tasks, sent, reply, checks>>

\* the wait for the cancelled tasks is over (or the validation failed) and
\* mark_websocket_disconnected reads the status
DisconnectRead(c) ==
    /\ conn[c].pc \in {"cleanup", "rejected"}
    /\ \A k \in Seqs : ~Running(c, k)
    /\ conn' = [conn EXCEPT ![c].status = StatusOf(db, conn[c].tsid),
                  ![c].pc = IF Exists(db, conn[c].tsid)
                            THEN "disc_write" ELSE "closed"]
    /\ UNCHANGED <<db, startReq, endReq, pending_metadata, response_buffer,
                   active_tasks, task, permits, sent, reply, checks>>

\* the read of mark_websocket_disconnected raises: the error is logged and
\* raised again, and the finally block ignores it
DisconnectReadFail(c) ==
    /\ conn[c].pc \in {"cleanup", "rejected"}
    /\ \A k \in Seqs : ~Running(c, k)
    /\ conn' = [conn EXCEPT ![c].pc = "closed"]
    /\ UNCHANGED <<db, startReq, endReq, pending_metadata, response_buffer,
                   active_tasks, task, permits, sent, reply, checks>>

\* the update of mark_websocket_disconnected raises: the error is logged
\* and raised again, and the finally block ignores it
DisconnectWriteFail(c) ==
    /\ conn[c].pc = "disc_write"
    /\ conn' = [conn EXCEPT ![c].pc = "closed"]
    /\ UNCHANGED <<db, startReq, endReq, pending_metadata, response_buffer,
                   active_tasks, task, permits, sent, reply, checks>>

\* a faulty update, which reverts the status to starting whatever status
\* was read: the disconnect semantics must not hold of it
DisconnectWriteReverts(c) ==
    /\ conn[c].pc = "disc_write"
    /\ db' = [db EXCEPT ![conn[c].tsid].connected = FALSE,
                ![conn[c].tsid].status = "starting"]
    /\ conn' = [conn EXCEPT ![c].pc = "closed"]
    /\ UNCHANGED <<startReq, endReq, pending_metadata, response_buffer,
                   active_tasks, task, permits, sent, reply, checks>>

\* the update: the presence flag is cleared, and the status is set to
\* starting if the status read was streaming
DisconnectWrite(c) ==
    /\ conn[c].pc = "disc_write"
    /\ db' = [db EXCEPT ![conn[c].tsid].connected = FALSE,
                ![conn[c].tsid].status =
                   IF conn[c].status = "streaming" THEN "starting" ELSE @]
    /\ conn' = [conn EXCEPT ![c].pc = "closed"]
    /\ UNCHANGED <<startReq, endReq, pending_metadata, response_buffer,
                   active_tasks, task, permits, sent, reply, checks>>


(***************************************************************************)
(* Specifications.                                                         *)
(***************************************************************************)
InitConns ==
    /\ conn = [c \in Conns |-> IdleConn]
    /\ pending_metadata = [c \in Conns |-> [k \in Seqs |-> -1]]
    /\ response_buffer = [c \in Conns |-> EmptyBuffer]
    /\ active_tasks = [c \in Conns |-> {}]
    /\ task = [c \in Conns |-> [k \in Seqs |-> NoTask]]
    /\ checks = [c \in Conns |-> [spawned |-> 0, ending |-> 0]]
    /\ permits = PoolCapacity
    /\ sent = [c \in Conns |-> <<>>]
    /\ reply = [c \in Conns |-> NoReply]

\* the text of a chunk in the specifications that do not look at the text
Word == <<"w">>

\* the steps of the chunk task of connection c for sequence k when no
\* collaborator fails and the pool has a permit whenever one is asked for
TaskStep(c, k) ==
    \/ AcquireOuter(c, k)
    \/ StoreOk(c, k)
    \/ TranscribeOk(c, k, Word)
    \/ UpdWrite(c, k)
    \/ TaskInsert(c, k)
    \/ DrainSend(c, k)

(***************************************************************************)
(* SpecPool: two sessions, each with its connection, whose clients send    *)
(* well-formed chunks (metadata, then the binary frame of that size); no   *)
(* collaborator fails.  The first connection admits up to PoolSeqA chunks, *)
(* the second up to PoolSeqB.                                              *)
(***************************************************************************)
PoolLimit(c) == IF c = 1 THEN PoolSeqA ELSE PoolSeqB

InitPool ==
    /\ db = [t \in TIds |-> IF t \in Conns THEN NewSession(t) ELSE NoDoc]
    /\ startReq = [r \in Reqs |-> IdleReq]
    /\ endReq = [t \in TIds |-> "idle"]
    /\ InitConns

NextPool ==
    \E c \in Conns :
       \/ Validate(c, c)
       \/ MarkConnected(c)
       \/ /\ conn[c].expected_sequence < PoolLimit(c)
          /\ pending_metadata[c][conn[c].expected_sequence] = -1
          /\ MetadataFrame(c, conn[c].expected_sequence, 100)
       \/ BinaryRead(c, 100, PoolLimit(c))
       \/ BinaryAdmit(c)
       \/ \E k \in Seqs :
            TaskStep(c, k) \/ AcquireInner(c, k) \/ Callback(c, k)
       \/ CheckRead(c)

SpecPool == InitPool /\ [][NextPool]_vars


(***************************************************************************)
(* Spec: the lifecycle of one transcription session.  The session was      *)
(* created by a start request and one connection handler is run for it;   *)
(* the client sends metadata for the expected chunk, or a binary frame     *)
(* without it, up to MaxSeq binary frames; end requests may arrive at any  *)
(* time, one after the other; the client may disconnect, which cancels the *)
(* tasks; the blob store, the transcription call and a send may fail.      *)
(***************************************************************************)

Init ==
    /\ db = [t \in TIds |-> IF t = 1 THEN NewSession(1) ELSE NoDoc]
    /\ startReq = [r \in Reqs |-> IdleReq]
    /\ endReq = [t \in TIds |-> "idle"]
    /\ InitConns

ReadLoop(c) ==
    \/ Validate(c, 1)
    \/ MarkConnected(c)
    \/ /\ conn[c].expected_sequence < MaxSeq
       /\ pending_metadata[c][conn[c].expected_sequence] = -1
       /\ MetadataFrame(c, conn[c].expected_sequence, 100)
    \/ BinaryRead(c, 100, MaxSeq)
    \/ BinarySessionEnding(c)
    \/ BinaryMissingMetadata(c)
    \/ BinaryAdmit(c)
    \/ Disconnect(c)
    \/ DisconnectRead(c)
    \/ DisconnectWrite(c)

Pipeline(c, k) ==
    \/ TaskStep(c, k)
    \/ StoreFail(c, k)
    \/ TranscribeFail(c, k)
    \/ DrainSendFail(c, k)
    \/ TaskCancelled(c, k)
    \/ Callback(c, k)

Next ==
    \/ EndFind(1)
    \/ EndUpdate(1)
    \/ EndAgain(1)
    \/ ReadLoop(1)
    \/ \E k \in Seqs : Pipeline(1, k)
    \/ CheckRead(1)
    \/ CheckDecide(1)

Spec == Init /\ [][Next]_vars


(***************************************************************************)
(* SpecSeq: the ordering of the results on one connection that stays open. *)
(* The client sends up to SeqFrames binary frames, each with or without    *)
(* its metadata; the blob store and the transcription call may fail; no    *)
(* send fails and no end request is made.                                  *)
(***************************************************************************)
NextSeq ==
    \/ Validate(1, 1)
    \/ MarkConnected(1)
    \/ /\ conn[1].expected_sequence < SeqFrames
       /\ pending_metadata[1][conn[1].expected_sequence] = -1
       /\ MetadataFrame(1, conn[1].expected_sequence, 100)
    \/ BinaryRead(1, 100, SeqFrames)
    \/ BinaryMissingMetadata(1)
    \/ BinaryAdmit(1)
    \/ \E k \in Seqs :
         \/ TaskStep(1, k)
         \/ AcquireInner(1, k)
         \/ StoreFail(1, k)
         \/ TranscribeFail(1, k)
         \/ Callback(1, k)
    \/ CheckRead(1)

SpecSeq == Init /\ [][NextSeq]_vars


(***************************************************************************)
(* SpecStart: up to MaxStarts start requests, made at any time and for any *)
(* parent, on a store that is empty at first; end requests on any session  *)
(* identifier; one connection handler, which attaches to any session.      *)
(***************************************************************************)
InitStart ==
    /\ db = [t \in TIds |-> NoDoc]
    /\ startReq = [r \in Reqs |-> IdleReq]
    /\ endReq = [t \in TIds |-> "idle"]
    /\ InitConns

NextStart ==
    \/ \E r \in Reqs, p \in Parents : StartFind(r, p)
    \/ \E r \in Reqs : StartInsert(r)
    \/ \E t \in TIds : EndFind(t) \/ EndUpdate(t)
    \/ \E t \in TIds : Validate(1, t)
    \/ MarkConnected(1)

SpecStart == InitStart /\ [][NextStart]_vars


(***************************************************************************)
(* SpecFrame: the framing of one connection.  The client sends, for the    *)
(* expected sequence number, metadata advertising any size of Sizes, and   *)
(* binary frames of any size of Sizes, with or without metadata, up to     *)
(* FrameSeq binary frames; an end request may arrive at any time; no       *)
(* collaborator fails.                                                     *)
(***************************************************************************)
NextFrame ==
    \/ Validate(1, 1)
    \/ MarkConnected(1)
    \/ \E n \in Sizes :
         /\ conn[1].expected_sequence < FrameSeq
         /\ pending_metadata[1][conn[1].expected_sequence] = -1
         /\ MetadataFrame(1, conn[1].expected_sequence, n)
    \/ \E n \in Sizes : BinaryRead(1, n, FrameSeq)
    \/ BinarySessionEnding(1)
    \/ BinaryMissingMetadata(1)
    \/ BinarySizeMismatch(1)
    \/ BinaryTooLarge(1)
    \/ BinaryAdmit(1)
    \/ EndFind(1)
    \/ EndUpdate(1)
    \/ \E k \in Seqs :
         TaskStep(1, k) \/ AcquireInner(1, k) \/ Callback(1, k)
    \/ CheckRead(1)
    \/ CheckDecide(1)

SpecFrame == Init /\ [][NextFrame]_vars


(***************************************************************************)
(* SpecFrameLive: SpecFrame with the scheduling of the event loop: a       *)
(* request, a handler, a chunk task or a completion check that can take    *)
(* its next step eventually takes it (no collaborator call hangs).  The    *)
(* client is under no obligation to send frames or requests.               *)
(***************************************************************************)
Scheduling ==
    /\ WF_vars(EndUpdate(1))
    /\ WF_vars(BinarySessionEnding(1) \/ BinaryMissingMetadata(1)
                 \/ BinarySizeMismatch(1) \/ BinaryTooLarge(1)
                 \/ BinaryAdmit(1))
    /\ WF_vars(\E k \in Seqs :
                  TaskStep(1, k) \/ AcquireInner(1, k) \/ Callback(1, k))
    /\ WF_vars(CheckRead(1))
    /\ WF_vars(CheckDecide(1))

SpecFrameLive == Init /\ [][NextFrame]_vars /\ Scheduling


(***************************************************************************)
(* SpecAttach: two connection handlers run for the one session (a          *)
(* connection and a second attempt, or a reconnection).  Each client sends *)
(* up to AttachSeq binary frames, with or without metadata, and may        *)
(* disconnect; no end request is made and no collaborator fails.           *)
(***************************************************************************)
NextAttach ==
    \E c \in Conns :
       \/ Validate(c, 1)
       \/ MarkConnected(c)
       \/ /\ conn[c].expected_sequence < AttachSeq
          /\ pending_metadata[c][conn[c].expected_sequence] = -1
          /\ MetadataFrame(c, conn[c].expected_sequence, 100)
       \/ BinaryRead(c, 100, AttachSeq)
       \/ BinaryMissingMetadata(c)
       \/ BinaryAdmit(c)
       \/ Disconnect(c)
       \/ DisconnectRead(c)
       \/ DisconnectWrite(c)
       \/ \E k \in Seqs : Pipeline(c, k)
       \/ CheckRead(c)

SpecAttach == Init /\ [][NextAttach]_vars


(***************************************************************************)
(* SpecText: the transcript of one session.  The client of the one         *)
(* connection sends up to TextSeq well-formed chunks; every transcription  *)
(* call succeeds and returns a text of one word, which names the chunk; no *)
(* collaborator fails.                                                     *)
(***************************************************************************)
\* the text the transcription call returns for chunk k
ChunkText(k) == <<ToString(k)>>

NextText ==
    \/ Validate(1, 1)
    \/ MarkConnected(1)
    \/ /\ conn[1].expected_sequence < TextSeq
       /\ pending_metadata[1][conn[1].expected_sequence] = -1
       /\ MetadataFrame(1, conn[1].expected_sequence, 100)
    \/ BinaryRead(1, 100, TextSeq)
    \/ BinaryAdmit(1)
    \/ \E k \in Seqs :
         \/ AcquireOuter(1, k)
         \/ StoreOk(1, k)
         \/ AcquireInner(1, k)
         \/ TranscribeOk(1, k, ChunkText(k))
         \/ UpdWrite(1, k)
         \/ TaskInsert(1, k)
         \/ DrainSend(1, k)
         \/ Callback(1, k)
    \/ CheckRead(1)

SpecText == Init /\ [][NextText]_vars


(***************************************************************************)
(* SpecAppend: one call of update_session_transcript.  The session has any *)
(* transcript of up to AppendLen words (left by an earlier connection),    *)
(* the task of chunk 0 has read it and holds any text of up to AppendLen   *)
(* words; the task writes the transcript and delivers its result.          *)
(***************************************************************************)
\* the sequences of at most n words over the words a and b
WordSeqs(n) == UNION {[1..m -> {"a", "b"}] : m \in 0..n}

InitAppend ==
    /\ \E T \in WordSeqs(AppendLen), X \in WordSeqs(AppendLen) :
         /\ db = [t \in TIds |->
                   IF t = 1
                   THEN [NewSession(1) EXCEPT !.status = "streaming",
                           !.connected = TRUE, !.transcript = T]
                   ELSE NoDoc]
         /\ task = [c \in Conns |-> [k \in Seqs |->
                     IF c = 1 /\ k = 0
                     THEN [NoTask EXCEPT !.pc = "upd_write", !.text = X,
                                         !.cur = T]
                     ELSE NoTask]]
    /\ startReq = [r \in Reqs |-> IdleReq]
    /\ endReq = [t \in TIds |-> "idle"]
    /\ conn = [c \in Conns |->
                 IF c = 1
                 THEN [IdleConn EXCEPT !.pc = "open", !.tsid = 1,
                         !.expected_sequence = 1, !.status = "streaming",
                         !.frame = 100]
                 ELSE IdleConn]
    /\ pending_metadata = [c \in Conns |-> [k \in Seqs |-> -1]]
    /\ response_buffer = [c \in Conns |-> EmptyBuffer]
    /\ active_tasks = [c \in Conns |-> IF c = 1 THEN {0} ELSE {}]
    /\ checks = [c \in Conns |-> [spawned |-> 0, ending |-> 0]]
    /\ permits = PoolCapacity - 1
    /\ sent = [c \in Conns |-> <<>>]
    /\ reply = [c \in Conns |-> NoReply]

NextAppend ==
    \/ UpdWrite(1, 0)
    \/ TaskInsert(1, 0)
    \/ DrainSend(1, 0)
    \/ Callback(1, 0)
    \/ CheckRead(1)

SpecAppend == InitAppend /\ [][NextAppend]_vars


(***************************************************************************)
(* SpecFault: one connection handler whose collaborator calls may fail.    *)
(* The handler is run for session 1 or for the absent session 2; the       *)
(* validation read, the update that marks the connection, the status reads *)
(* of the frames and the read and the update of the disconnect may raise;  *)
(* the client sends up to FaultSeq binary frames, with or without          *)
(* metadata, and may disconnect; the blob store, the transcription call    *)
(* and a send may fail.                                                    *)
(***************************************************************************)
NextFault ==
    \/ \E t \in {1, 2} : Validate(1, t)
    \/ ValidateFail(1, 1)
    \/ MarkConnected(1)
    \/ MarkConnectedFail(1)
    \/ /\ conn[1].expected_sequence < FaultSeq
       /\ pending_metadata[1][conn[1].expected_sequence] = -1
       /\ MetadataFrame(1, conn[1].expected_sequence, 100)
    \/ /\ conn[1].expected_sequence < FaultSeq
       /\ pending_metadata[1][conn[1].expected_sequence] = -1
       /\ MetadataFrameFail(1, conn[1].expected_sequence, 100)
    \/ BinaryRead(1, 100, FaultSeq)
    \/ BinaryReadFail(1)
    \/ LoopErrorBreak(1)
    \/ BinaryMissingMetadata(1)
    \/ BinaryAdmit(1)
    \/ Disconnect(1)
    \/ DisconnectRead(1)
    \/ DisconnectReadFail(1)
    \/ DisconnectWrite(1)
    \/ DisconnectWriteFail(1)
    \/ \E k \in Seqs : Pipeline(1, k)
    \/ CheckRead(1)

SpecFault == Init /\ [][NextFault]_vars


(***************************************************************************)
(* SpecLife: the lifecycle of Spec with the unexpected errors of the       *)
(* handler: the update that marks the connection and the status read of a  *)
(* binary frame may raise.                                                 *)
(***************************************************************************)
NextLife ==
    \/ Next
    \/ MarkConnectedFail(1)
    \/ BinaryReadFail(1)
    \/ LoopErrorBreak(1)

SpecLife == Init /\ [][NextLife]_vars


(***************************************************************************)
(* Properties.                                                             *)
(***************************************************************************)
\* a task was created for sequence k of connection c
Admitted(c, k) == task[c][k].pc # "none"

\* the Sequencer sent the result of sequence k on connection c
Delivered(c, k) == \E i \in DOMAIN sent[c] : sent[c][i].key = k

\* C1: on a connection the Sequencer's messages go out in strictly
\* increasing sequence order, whatever the completion order: a message that
\* carries a sequence number carries the one it was buffered under, a result
\* for j is never sent before the result of an admitted i < j, and no
\* sequence number is sent twice.
C1_SentInOrder ==
    \A c \in Conns :
       /\ \A i, j \in DOMAIN sent[c] : i < j => sent[c][i].key < sent[c][j].key
       /\ \A j \in DOMAIN sent[c] :
            /\ sent[c][j].msg.type # "none"
            /\ sent[c][j].msg.seq \in {sent[c][j].key, -1}
            /\ \A k \in Seqs :
                 (k < sent[c][j].key /\ Admitted(c, k)) =>
                    \E i \in 1..(j - 1) : sent[c][i].key = k

\* C1, the case: the result of sequence 2 is buffered, having completed
\* before that of sequence 1, which is still being processed, and after the
\* result of sequence 0 was sent
C1_Witness ==
    /\ Len(sent[1]) = 1
    /\ InBuffer(response_buffer[1], 2)
    /\ Running(1, 1)

\* C2: on connections that stay open, with no failing collaborator, every
\* admitted chunk task eventually finishes and its result is sent: as long
\* as a chunk task is outstanding, some chunk task can take a step.
C2_TasksProgress ==
    (\E c \in Conns, k \in Seqs : Running(c, k)) =>
       ENABLED (\E c \in Conns, k \in Seqs :
                  TaskStep(c, k) \/ AcquireInner(c, k))

\* C3: a frame rejected at sequence k consumes k without entering the
\* Sequencer and does not desynchronize the stream: on the open connection,
\* once every admitted chunk task has finished, the result of every admitted
\* sequence number has been sent to the client.
C3_LaterResultsDelivered ==
    (/\ conn[1].pc = "open"
     /\ \A k \in Seqs : task[1][k].pc \in {"none", "finished"}) =>
       \A k \in Seqs : Admitted(1, k) => Delivered(1, k)

\* the transcription calls in flight, on all connections
InFlight ==
    Cardinality({ck \in Conns \X Seqs : task[ck[1]][ck[2]].pc = "transcribing"})

\* C4: at most PoolCapacity transcription calls are in flight at any time,
\* counted over all connections: every call in flight holds a permit of the
\* one pool, whose permits are never overdrawn.
C4_PoolBound ==
    /\ InFlight <= PoolCapacity
    /\ permits >= 0
    /\ InFlight <= PoolCapacity - permits

\* C4, the case: the two connections each have a call in flight, the pool
\* is exhausted and a further admitted chunk waits for a permit
C4_Witness ==
    /\ task[1][0].pc = "transcribing"
    /\ task[2][0].pc = "transcribing"
    /\ permits = 0
    /\ \E k \in Seqs : task[1][k].pc = "created"

\* C5: drain before complete: the status of the session is not completed
\* while a chunk task of its connection is still running.
C5_DrainBeforeComplete ==
    db[1].status = "completed" => \A k \in Seqs : ~Running(1, k)

\* C6: disconnect semantics.  The update of mark_websocket_disconnected
\* clears the presence flag; it sets the status to starting when the
\* disconnect found the status streaming, and leaves the status as it is
\* when the disconnect found it ending, completed or failed.
C6_Disconnect ==
    [][(conn[1].pc = "disc_write" /\ conn'[1].pc = "closed") =>
         /\ ~db'[1].connected
         /\ conn[1].status = "streaming" => db'[1].status = "starting"
         /\ conn[1].status \in EndedStatuses =>
               db'[1].status = db[1].status]_vars

\* C6, the case: the handler of a connection that had received binary
\* frames was closed by a disconnect that found the session ending; the
\* session is still ending and its presence flag is cleared
C6_Witness ==
    /\ conn[1].pc = "closed"
    /\ conn[1].expected_sequence > 0
    /\ conn[1].status = "ending"
    /\ db[1].status = "ending"
    /\ ~db[1].connected

\* C7: in every reachable state, whatever the interleaving of the start
\* requests, a parent session has at most one transcription session whose
\* status is starting or streaming.
C7_OneActivePerParent ==
    \A p \in Parents : Cardinality(ActiveOfParent(db, p)) <= 1

\* the sessions of parent p that are starting or streaming
StartedOf(p) ==
    {t \in TIds : db[t].parent = p /\ db[t].status \in {"starting", "streaming"}}

\* C8: idempotent start.  A start request made for a parent that has a
\* session in status starting or streaming returns the identifier of such a
\* session and leaves the store as it is (no record created, none changed);
\* with one such session it returns what an earlier request for the parent
\* returned for that session.
C8_IdempotentStart ==
    [][\A r \in Reqs :
         (/\ startReq[r].pc = "idle"
          /\ startReq'[r].pc # "idle"
          /\ StartedOf(startReq'[r].parent) # {}) =>
            /\ startReq'[r].pc = "returned"
            /\ startReq'[r].result \in StartedOf(startReq'[r].parent)
            /\ db' = db
            /\ \A q \in Reqs :
                  (/\ startReq[q].pc \in {"returned", "created"}
                   /\ StartedOf(startReq'[r].parent) = {startReq[q].result}) =>
                     startReq'[r].result = startReq[q].result]_vars

\* C8, the case: the store holds one record, which is streaming; the request
\* that created it and two later requests for its parent returned the same
\* identifier
C8_Witness ==
    /\ Cardinality({t \in TIds : Exists(db, t)}) = 1
    /\ db[1].status = "streaming"
    /\ startReq[1].pc = "created" /\ startReq[1].result = 1
    /\ startReq[2].pc = "returned" /\ startReq[2].result = 1
    /\ startReq[3].pc = "returned" /\ startReq[3].result = 1

\* the read loop answers the binary frame it has read the status for
FrameAnswered == conn[1].pc = "binary" /\ conn'[1].pc = "open"

\* C9: pairing.  A binary frame received on a streaming session when the
\* expected sequence number is k and pending_metadata has no entry for k is
\* answered with MISSING_METADATA carrying k, no task is created for it,
\* and the expected sequence number becomes k + 1.
C9_MissingMetadata ==
    [][(/\ FrameAnswered
        /\ conn[1].status = "streaming"
        /\ pending_metadata[1][conn[1].expected_sequence] = -1) =>
          /\ reply'[1] = [type |-> "error", code |-> "MISSING_METADATA",
                          seq |-> conn[1].expected_sequence]
          /\ task' = task
          /\ active_tasks' = active_tasks
          /\ conn'[1].expected_sequence = conn[1].expected_sequence + 1]_vars

\* C9, the case: after chunk 0 was admitted, the frame for sequence 1 came
\* without metadata: it was answered MISSING_METADATA for 1, no task exists
\* for 1 and the next frame is expected at 2
C9_Witness ==
    /\ conn[1].pc = "open"
    /\ Admitted(1, 0)
    /\ reply[1] = [type |-> "error", code |-> "MISSING_METADATA", seq |-> 1]
    /\ ~Admitted(1, 1)
    /\ conn[1].expected_sequence = 2

\* C10: size enforcement.  A binary frame received on a streaming session
\* whose length differs from the size advertised by the metadata for the
\* expected sequence number k, both within the ceiling, is answered with
\* SIZE_MISMATCH carrying k, no task is created for it, and the expected
\* sequence number becomes k + 1.
C10_SizeMismatch ==
    [][(/\ FrameAnswered
        /\ conn[1].status = "streaming"
        /\ pending_metadata[1][conn[1].expected_sequence] # -1
        /\ pending_metadata[1][conn[1].expected_sequence] # conn[1].frame
        /\ pending_metadata[1][conn[1].expected_sequence] <= MaxChunkSizeBytes
        /\ conn[1].frame <= MaxChunkSizeBytes) =>
          /\ reply'[1] = [type |-> "error", code |-> "SIZE_MISMATCH",
                          seq |-> conn[1].expected_sequence]
          /\ task' = task
          /\ active_tasks' = active_tasks
          /\ conn'[1].expected_sequence = conn[1].expected_sequence + 1]_vars

\* C10, the case: metadata advertised 100 bytes for sequence 0 and the
\* frame had 101: it was answered SIZE_MISMATCH for 0, no task exists for 0
\* and the next frame is expected at 1
C10_Witness ==
    /\ conn[1].pc = "open"
    /\ conn[1].frame = 101
    /\ reply[1] = [type |-> "error", code |-> "SIZE_MISMATCH", seq |-> 0]
    /\ ~Admitted(1, 0)
    /\ conn[1].expected_sequence = 1

\* C11: the ceiling check takes precedence over the size-mismatch check: a
\* binary frame received on a streaming session when the metadata for the
\* expected sequence number advertises more than MaxChunkSizeBytes is
\* answered with CHUNK_TOO_LARGE, whatever its length.
C11_CeilingFirst ==
    [][(/\ FrameAnswered
        /\ conn[1].status = "streaming"
        /\ pending_metadata[1][conn[1].expected_sequence] > MaxChunkSizeBytes) =>
          reply'[1] = [type |-> "error", code |-> "CHUNK_TOO_LARGE",
                       seq |-> conn[1].expected_sequence]]_vars

\* C12: a binary frame is admitted only if the status read for it is
\* streaming: a frame checked against any other status (starting, ending,
\* completed, failed, or no session) is answered with a session-state error
\* carrying the expected sequence number, no task is created and the
\* session record is left as it is.
C12_OnlyStreamingAdmits ==
    [][\A c \in Conns :
         (/\ conn[c].pc = "binary"
          /\ conn'[c].pc = "open"
          /\ conn[c].status # "streaming") =>
            /\ reply'[c].type = "error"
            /\ reply'[c].code \in {"SESSION_NOT_FOUND", "SESSION_ENDING",
                                   "SESSION_NOT_STREAMING"}
            /\ reply'[c].seq = conn[c].expected_sequence
            /\ task' = task
            /\ db' = db]_vars

\* C13: an end request that finds the session ending, completed or failed
\* fails with the already-ended error and writes nothing; an end request
\* that finds it starting or streaming sets the status to ending.
C13_EndRequest ==
    [][/\ (endReq[1] = "idle" /\ endReq'[1] # "idle") =>
            /\ db' = db
            /\ db[1].status \in {"ending", "completed", "failed"} =>
                 endReq'[1] = "already_ended"
            /\ db[1].status \in {"starting", "streaming"} =>
                 endReq'[1] = "found"
       /\ (endReq[1] = "already_ended" /\ endReq'[1] # "already_ended") =>
            (endReq'[1] = "idle" /\ db' = db)
       /\ (endReq[1] = "found" /\ endReq'[1] # "found") =>
            (endReq'[1] = "ended" /\ db'[1].status = "ending")]_vars

\* C13, the case: the session was ended and completed, and a second end
\* request for it was answered with the already-ended error
C13_Witness ==
    /\ endReq[1] = "already_ended"
    /\ db[1].status = "completed"
    /\ Delivered(1, 0)

\* C14: the end request never sets the status to completed; a step that
\* makes the status completed starts from ending and is the decision of a
\* completion check spawned by a chunk task's callback.
C14_CompletedOnlyByCheck ==
    [][(db'[1].status = "completed" /\ db[1].status # "completed") =>
         /\ db[1].status = "ending"
         /\ endReq' = endReq
         /\ checks[1].ending > 0
         /\ checks'[1].ending = checks[1].ending - 1]_vars

\* C15: a failure at a stage of the pipeline of an admitted chunk k yields
\* an error result that carries the sequence number k and an error code, is
\* buffered at position k and is delivered in order: every error message
\* the Sequencer holds or has sent carries the sequence number of its
\* position.
C15_ErrorCarriesSeq ==
    \A c \in Conns :
       /\ \A i \in DOMAIN sent[c] :
            sent[c][i].msg.type = "error" =>
               /\ sent[c][i].msg.code # "none"
               /\ sent[c][i].msg.seq = sent[c][i].key
       /\ \A k \in Seqs :
            InBuffer(response_buffer[c], k) =>
               /\ Admitted(c, k)
               /\ MessageOf(response_buffer[c][k], k).seq = k

\* the number of occurrences of word w in transcript t
Occurrences(t, w) == Cardinality({i \in DOMAIN t : t[i] = w})

\* C16: the transcript append is atomic: once the chunk tasks of the
\* session, which all succeeded, have finished, the stored transcript holds
\* the text of every admitted chunk exactly once.
C16_NoLostAppend ==
    (\A k \in Seqs : task[1][k].pc \in {"none", "finished"}) =>
       \A k \in Seqs :
          Admitted(1, k) => Occurrences(db[1].transcript, ChunkText(k)[1]) = 1

\* s is a prefix of t
IsPrefix(s, t) == Len(s) <= Len(t) /\ SubSeq(t, 1, Len(s)) = s

\* C17: the append is a single space-joined concatenation that skips the
\* join when either side is empty: with the transcript T the task read and
\* the new text X, the transcript written is T X when both are non-empty,
\* X when T is empty and T when X is empty; the transcript written has the
\* previous transcript as a prefix.
C17_AppendJoin ==
    [][(task[1][0].pc = "upd_write" /\ task'[1][0].pc # "upd_write") =>
         /\ db'[1].transcript =
              IF task[1][0].text = <<>> THEN task[1][0].cur
              ELSE IF task[1][0].cur = <<>> THEN task[1][0].text
              ELSE task[1][0].cur \o task[1][0].text
         /\ IsPrefix(db[1].transcript, db'[1].transcript)]_vars

\* the chunk tasks that have not terminated
Outstanding == {ck \in Conns \X Seqs : Running(ck[1], ck[2])}

\* C18: every permit a chunk task acquires is released on every exit path
\* (success, pipeline error, cancellation): the permits held never exceed
\* PoolCapacity nor two per outstanding task, and once every chunk task has
\* terminated all PoolCapacity permits are available.
C18_PermitsReturned ==
    /\ permits \in 0..PoolCapacity
    /\ PoolCapacity - permits <= 2 * Cardinality(Outstanding)
    /\ Outstanding = {} => permits = PoolCapacity

\* C18, the case: the task of chunk 0 ended with a pipeline error, which
\* was sent, the task of chunk 1 was cancelled by the disconnect cleanup,
\* both have terminated and all permits are available
C18_Witness ==
    /\ task[1][0].pc = "finished"
    /\ Len(sent[1]) = 1
    /\ sent[1][1].msg.type = "error"
    /\ task[1][1].pc = "finished"
    /\ task[1][1].cancel
    /\ permits = PoolCapacity

C20_ReadLoopNotBlocked ==
    \A c \in Conns :
       /\ (conn[c].pc = "open" /\ conn[c].expected_sequence < PoolLimit(c)) =>
            /\ ENABLED MetadataFrame(c, conn[c].expected_sequence, 100)
            /\ ENABLED BinaryRead(c, 100, PoolLimit(c))
       /\ (conn[c].pc = "binary" /\ conn[c].status = "streaming") =>
            IF pending_metadata[c][conn[c].expected_sequence] = conn[c].frame
            THEN ENABLED BinaryAdmit(c)
            ELSE ENABLED BinaryMissingMetadata(c)

\* C20, the case: all permits are held, by two tasks of connection 1 in
\* their transcription calls and a third storing its chunk, while the read
\* loop has received the metadata and the binary frame of chunk 3
C20_Witness ==
    /\ permits = 0
    /\ task[1][0].pc = "transcribing"
    /\ task[1][1].pc = "transcribing"
    /\ task[1][2].pc = "storing"
    /\ conn[1].pc = "binary"
    /\ conn[1].expected_sequence = 3
    /\ pending_metadata[1][3] = 100

\* C21: once the connection is established, a failure of a collaborator
\* call made while handling a frame does not terminate the read loop: the
\* handler stays in the loop and answers with an error message that carries
\* the sequence number of the frame.
C21_FrameFailureAnswered ==
    [][(/\ conn[1].pc = "open"
        /\ \/ conn'[1].pc = "loop_error"
           \/ reply'[1] # reply[1] /\ reply'[1].code = "PROCESSING_ERROR") =>
          /\ conn'[1].pc = "open"
          /\ reply'[1].type = "error"
          /\ reply'[1].seq = conn[1].expected_sequence]_vars

\* C22: every exit from the read loop (client disconnect or error) enters
\* the cleanup with cancellation requested for every chunk task that has
\* not finished; the presence flag is cleared only by the cleanup's update,
\* after that, with no uncancelled task left; and the cleanup only proceeds
\* to the end of the handler, also when its read or its update fails.
C22_Cleanup ==
    [][/\ (/\ conn[1].pc \in {"open", "loop_error"}
           /\ conn'[1].pc \notin {"open", "binary", "loop_error"}) =>
             /\ conn'[1].pc = "cleanup"
             /\ \A k \in Seqs :
                  task'[1][k].pc \in RunningPcs => task'[1][k].cancel
       /\ (db[1].connected /\ ~db'[1].connected) =>
             /\ conn[1].pc = "disc_write"
             /\ conn'[1].pc = "closed"
             /\ \A k \in Seqs :
                  task[1][k].pc \in RunningPcs => task[1][k].cancel
       /\ (conn[1].pc \in {"cleanup", "disc_write"}) =>
             conn'[1].pc \in {"cleanup", "disc_write", "closed"}]_vars

\* C22, the case: the loop was left by an error while the task of chunk 0
\* was running; the task was cancelled and has finished, and the handler
\* ended with the presence flag cleared
C22_Witness ==
    /\ conn[1].pc = "closed"
    /\ conn[1].ws = "connected"
    /\ task[1][0].cancel
    /\ task[1][0].pc = "finished"
    /\ ~db[1].connected
    /\ db[1].status = "starting"

\* C23: a connection whose connect-time validation fails is closed with
\* the close code 4000, and one that meets an unexpected internal failure
\* while it is being established is closed with the close code 1011.
C23_CloseCodes ==
    [][/\ (conn[1].pc = "idle" /\ conn'[1].pc = "rejected") =>
             reply'[1] = CloseReply("4000")
       /\ (conn[1].pc \in {"idle", "validated"} /\ conn'[1].pc = "cleanup") =>
             reply'[1] = CloseReply("1011")]_vars

\* C24: the cursor next_sequence_to_send starts at 0 (it counts the
\* messages sent), never decreases, and advances by exactly 1 only in a
\* step that sends the entry at the cursor and removes it; outside the
\* critical section every key of the response buffer is at or above the
\* cursor; and the key of a message sent is the cursor, so that an entry
\* above a missing sequence is never sent while the gap exists.
C24_CursorInvariant ==
    /\ [](/\ conn[1].next_sequence_to_send = Len(sent[1])
          /\ conn[1].lock = -1 =>
               \A k \in Seqs : InBuffer(response_buffer[1], k) =>
                                  k >= conn[1].next_sequence_to_send)
    /\ [][LET n == conn[1].next_sequence_to_send IN
            /\ conn'[1].next_sequence_to_send >= n
            /\ conn'[1].next_sequence_to_send # n =>
                 /\ conn'[1].next_sequence_to_send = n + 1
                 /\ InBuffer(response_buffer[1], n)
                 /\ ~InBuffer(response_buffer'[1], n)
                 /\ Len(sent'[1]) = Len(sent[1]) + 1
            /\ sent'[1] # sent[1] =>
                 /\ Len(sent'[1]) = Len(sent[1]) + 1
                 /\ sent'[1][Len(sent'[1])].key = n
                 /\ InBuffer(response_buffer[1], n)
                 /\ conn'[1].next_sequence_to_send = n + 1]_vars

\* C24, the case: the frame of sequence 0 was rejected, the chunk of
\* sequence 1 was admitted and its task has finished: its result stays in
\* the buffer, above the gap, the cursor is 0 and nothing was sent
C24_Witness ==
    /\ ~Admitted(1, 0)
    /\ task[1][1].pc = "finished"
    /\ ~task[1][1].cancel
    /\ InBuffer(response_buffer[1], 1)
    /\ conn[1].next_sequence_to_send = 0
    /\ conn[1].lock = -1
    /\ sent[1] = <<>>

Draining(c) == {k \in Seqs : task[c][k].pc = "draining"}

\* C26: insert-then-drain is one critical section per connection: at most
\* one chunk task of a connection is inside it, and it holds the lock; every
\* change of the response buffer or of the cursor of a connection is made
\* by the step of one task of the connection, which is inside the critical
\* section or enters it when it is free, so that no insert interleaves with
\* the drain of another task, although the drain suspends on each send.
C26_CriticalSection ==
    /\ [](\A c \in Conns :
            /\ Cardinality(Draining(c)) <= 1
            /\ \A k \in Draining(c) : conn[c].lock = k)
    /\ [][\A c \in Conns :
            (\/ response_buffer'[c] # response_buffer[c]
             \/ conn'[c].next_sequence_to_send # conn[c].next_sequence_to_send) =>
               \E k \in Seqs :
                  /\ \A j \in Seqs \ {k} : task'[c][j] = task[c][j]
                  /\ IF conn[c].lock = -1
                     THEN /\ task[c][k].pc \in {"upd_write", "wait_lock"}
                          /\ task'[c][k].pc \in {"draining", "done"}
                     ELSE /\ conn[c].lock = k
                          /\ task[c][k].pc = "draining"]_vars

\* C26, the case: on each of the two connections a task is suspended on a
\* send of its drain, and on the first connection another task, which has
\* its result, waits for the lock
C26_Witness ==
    /\ Draining(1) # {}
    /\ Draining(2) # {}
    /\ \E k \in Seqs : task[1][k].pc = "wait_lock"

\* C27: pending_metadata holds an entry only between its metadata frame and
\* the handling of the paired binary frame: once the binary frame for k was
\* handled, with any outcome, there is no entry for k, so that no entry is
\* retained for a sequence number below the expected sequence number.
C27_NoStaleMetadata ==
    \A k \in Seqs :
       k < conn[1].expected_sequence => pending_metadata[1][k] = -1

\* C28: sequence numbers are assigned by the arrival order of the binary
\* frames, from 0: the expected sequence number is 0 until the loop starts,
\* every binary frame handled, admitted or rejected, consumes exactly one
\* number and a task is created only for the number of the frame admitted,
\* which had none; no other step (text frames included) consumes a number
\* or creates a task; every admitted chunk has a number below the expected
\* one.
C28_SequenceNumbers ==
    /\ [](/\ conn[1].pc \in {"idle", "validated"} =>
               conn[1].expected_sequence = 0
          /\ \A k \in Seqs : Admitted(1, k) => k < conn[1].expected_sequence)
    /\ [][LET e == conn[1].expected_sequence IN
            IF conn[1].pc = "binary" /\ conn'[1].pc # "binary"
            THEN /\ conn'[1].expected_sequence = e + 1
                 /\ ~Admitted(1, e)
                 /\ \A k \in Seqs \ {e} :
                      (task'[1][k].pc = "none") = (task[1][k].pc = "none")
            ELSE /\ conn'[1].expected_sequence = e
                 /\ \A k \in Seqs :
                      (task'[1][k].pc = "none") = (task[1][k].pc = "none")]_vars

\* C28, the case: three binary frames were handled; the second was
\* rejected, the first and the third were admitted as chunks 0 and 2
C28_Witness ==
    /\ conn[1].pc = "open"
    /\ conn[1].expected_sequence = 3
    /\ Admitted(1, 0)
    /\ ~Admitted(1, 1)
    /\ Admitted(1, 2)

\* C29: the completion callback removes the finished task from the active
\* tasks and completes an ending session that has no running chunk task:
\* hence an end request issued while chunk tasks are outstanding leads to
\* the status completed once they have all finished.
C29_EventuallyCompleted ==
    (endReq[1] = "found" /\ \E k \in Seqs : Running(1, k))
       ~> (db[1].status = "completed")

\* word w occurs in t before word v
Before(t, w, v) == \E p, q \in DOMAIN t : p < q /\ t[p] = w /\ t[q] = v

\* C30: the transcript is appended in completion order, not in sequence
\* order, while the results are sent in sequence order: the append of the
\* task of chunk k puts the text of k after the text of every chunk that
\* was in the transcript when the transcription of k finished, whatever
\* its sequence number, and the keys of the messages sent increase.
C30_CompletionOrder ==
    /\ [](\A i, j \in DOMAIN sent[1] :
            i < j => sent[1][i].key < sent[1][j].key)
    /\ [][\A k \in Seqs :
            (task[1][k].pc = "upd_write" /\ task'[1][k].pc # "upd_write") =>
               \A j \in Seqs \ {k} :
                  Occurrences(task[1][k].cur, ChunkText(j)[1]) > 0 =>
                     Before(db'[1].transcript, ChunkText(j)[1],
                            ChunkText(k)[1])]_vars

\* C30, the case: chunk 1 finished before chunk 0: the transcript holds
\* the text of chunk 1 before the text of chunk 0, and the client received
\* the update for sequence 0 before the update for sequence 1
C30_Witness ==
    /\ db[1].transcript = ChunkText(1) \o ChunkText(0)
    /\ Len(sent[1]) = 2
    /\ sent[1][1].msg = [type |-> "transcript_update", code |-> "none",
                         seq |-> 0]
    /\ sent[1][2].msg = [type |-> "transcript_update", code |-> "none",
                         seq |-> 1]

\* C31: an unrecoverable error of the connection handler moves the session
\* to the terminal status failed: when the handler that left its read loop
\* by an error (its socket was not disconnected by the client) has ended,
\* the status is completed or failed; and once the status is completed or
\* failed it never changes again.
C31_TerminalStatuses ==
    /\ []((conn[1].pc = "closed" /\ conn[1].ws = "connected") =>
             db[1].status \in {"completed", "failed"})
    /\ [][db[1].status \in {"completed", "failed"} =>
             db'[1].status = db[1].status]_vars

\* the chunk tasks that hold a permit of the pool
Holders == {ck \in Conns \X Seqs :
              task[ck[1]][ck[2]].pc \in RunningPcs \ {"created"}}

\* C32: the worker pool is free of deadlock: in no reachable state is
\* every permit held by chunk tasks that all wait for another permit of the
\* pool.
C32_NoPoolDeadlock ==
    ~(/\ permits = 0
      /\ Holders # {}
      /\ \A ck \in Holders : task[ck[1]][ck[2]].pc = "wait_inner")

\* C33: status monotonicity: once the status of the session is ending,
\* completed or failed, no step makes it starting or streaming again,
\* whatever the interleaving of the end request with the disconnect cleanup
\* and with the attachment of a connection.
C33_StatusMonotonic ==
    [][db[1].status \in {"ending", "completed", "failed"} =>
          db'[1].status \notin {"starting", "streaming"}]_vars

\* the connections whose handler is in its read loop
Attached == {c \in Conns : conn[c].pc \in {"open", "binary"}}

\* C34: at most one connection is attached to the session at any time: of
\* two connection attempts on the session, at most one is in its read loop.
C34_OneConnection == Cardinality(Attached) <= 1

\* C35: a connection attempt rejected at the validation leaves the session
\* record unchanged: no step of a handler whose socket was never accepted
\* changes the record, so that while one accepted connection is in its
\* read loop the presence flag stays true and the status streaming.
C35_RejectedLeavesRecord ==
    [][\A c \in Conns :
         (/\ conn[c].ws = "connecting"
          /\ conn'[c].ws = "connecting"
          /\ conn'[c] # conn[c]) => db' = db]_vars

\* C36: every session that enters ending eventually reaches completed or
\* failed, also when no chunk task is outstanding or no connection is
\* attached when the end request arrives.
C36_EndingEnds ==
    (db[1].status = "ending") ~> (db[1].status \in {"completed", "failed"})

C38_AppendNeverFails ==
    /\ task[1][0].resp \in {"none", "transcript_update"}
    /\ response_buffer[1][0] \in {"none", "transcript_update"}
    /\ \A i \in DOMAIN sent[1] : sent[1][i].msg.type = "transcript_update"

=============================================================================
